---------------------------- MODULE Spec2Model ----------------------------
(***************************************************************************)
(* musicbrainz-cuesheet: src/main.rs as a state machine.                   *)
(*                                                                         *)
(* Text is modelled as a sequence of tokens (TLA+ strings that are never   *)
(* split), a line as the token sequence one writeln! produces, a cuesheet  *)
(* as a sequence of lines.  Numbers formatted with {:02} become decimal    *)
(* digit tokens.  Option<T> is a sequence of length 0 (None) or 1 (Some).  *)
(* Filesystem calls (create_dir_all, write) are taken to succeed: their    *)
(* failure is a panic that no property below is about.  TLC's integers are *)
(* 32-bit signed, so track lengths stay far below the u32 limit of         *)
(* track_start and its sum never overflows here.                           *)
(***************************************************************************)
EXTENDS Integers, Sequences, FiniteSets, TLC

VARIABLES
    pc,                \* position of main(): see PcValues
    release,           \* the Release returned by Release::fetch() (line 64)
    cover_art,         \* args.cover_art (line 21)
    release_cuesheet,  \* line 73: header lines shared by every medium
    mi,                \* index of the medium the loop of line 114 is at
    ti,                \* index of the track the loop of line 131 is at
    medium_id,         \* line 115
    medium_cuesheet,   \* line 128: lines of the current medium
    track_start,       \* line 130
    files,             \* out_dir: file name -> [by: medium index, text: lines]
    resp,              \* line 151: what fetch_coverart() returned
    images,            \* cover_art.images still to download (line 159)
    attempted,         \* image urls handed to reqwest::blocking::get
    cover_files,       \* cover-art files written (line 52)
    stderr,            \* eprintln! output
    panicked,          \* "" or the place of the unwrap() that panicked
    ms_in,             \* argument of a stand-alone millisecond_to_mmssff call
    mmssff_out         \* its result (<<>> before the call)

vars == <<pc, release, cover_art, release_cuesheet, mi, ti, medium_id,
          medium_cuesheet, track_start, files, resp, images, attempted,
          cover_files, stderr, panicked, ms_in, mmssff_out>>

-----------------------------------------------------------------------------
(* Bounds of the model *)

MaxMedia == 2
MaxTracks == 3
MaxLabels == 2
MaxImages == 2
MaxMs == 2000

-----------------------------------------------------------------------------
(* Option<T> and formatting helpers *)

None == <<>>
Some(x) == <<x>>
IsSome(o) == Len(o) > 0
UnwrapOr(o, d) == IF IsSome(o) THEN o[1] ELSE d

DigitChars == <<"0", "1", "2", "3", "4", "5", "6", "7", "8", "9">>

RECURSIVE Decimal(_)
\* Display of an unsigned integer: its decimal digits, most significant first.
Decimal(n) == IF n < 10 THEN <<DigitChars[n + 1]>>
              ELSE Decimal(n \div 10) \o <<DigitChars[(n % 10) + 1]>>

RECURSIVE ZeroPad(_, _)
\* {:0w}: pad with zeros on the left to at least w characters, never truncate.
ZeroPad(s, w) == IF Len(s) >= w THEN s ELSE ZeroPad(<<"0">> \o s, w)

Fmt02(n) == ZeroPad(Decimal(n), 2)

RECURSIVE Flatten(_)
\* collect::<String>() of a sequence of strings
Flatten(ss) == IF ss = <<>> THEN <<>> ELSE Head(ss) \o Flatten(Tail(ss))

RECURSIVE Join(_, _)
\* [String]::join(sep)
Join(ss, sep) == IF ss = <<>> THEN <<>>
                 ELSE IF Len(ss) = 1 THEN ss[1]
                 ELSE ss[1] \o sep \o Join(Tail(ss), sep)

-----------------------------------------------------------------------------
(* millisecond_to_mmssff, lines 34-45 *)

FRAMES_PER_SECOND == 75

\* (ms_part / (1000.0 / 75.0)).round(): f64::round is half away from zero;
\* for the 1000 possible values of ms_part the f64 result equals this integer
\* form of round(ms_part * 75 / 1000) (compared value by value).
RoundFrames(ms_part) == (2 * ms_part * FRAMES_PER_SECOND + 1000) \div 2000

millisecond_to_mmssff(ms) ==
    LET ms_part == ms % 1000
        frames  == RoundFrames(ms_part)
        seconds == (ms \div 1000) % 60
        minutes == ms \div 60000
    IN  Fmt02(minutes) \o <<":">> \o Fmt02(seconds) \o <<":">> \o Fmt02(frames)


-----------------------------------------------------------------------------
(* join_artists, lines 27-32 *)

\* format!("{}{}", a.name, a.joinphrase.clone().unwrap_or_default())
CreditText(a) == a.name \o UnwrapOr(a.joinphrase, <<>>)

join_artists(artists) == Flatten([i \in 1..Len(artists) |-> CreditText(artists[i])])

-----------------------------------------------------------------------------
(* chrono::NaiveDate as used on lines 91-94 *)

IsLeap(y) == (y % 4 = 0 /\ y % 100 # 0) \/ y % 400 = 0

DaysBefore == <<0, 31, 59, 90, 120, 151, 181, 212, 243, 273, 304, 334>>

\* Datelike::ordinal(): day of the year, starting from 1
Ordinal(d) == DaysBefore[d.month] + d.day
              + (IF d.month > 2 /\ IsLeap(d.year) THEN 1 ELSE 0)

\* NaiveDate's Display: %Y-%m-%d
DateToString(d) == ZeroPad(Decimal(d.year), 4) \o <<"-">> \o Fmt02(d.month)
                   \o <<"-">> \o Fmt02(d.day)

-----------------------------------------------------------------------------
(* The header block, lines 76-110 *)

PerformerLines(r) ==
    IF IsSome(r.artist_credit)
    THEN << <<"PERFORMER \"">> \o join_artists(r.artist_credit[1]) \o <<"\"">> >>
    ELSE <<>>

GenreLines(r) ==
    IF IsSome(r.release_group) /\ IsSome(r.release_group[1].genres)
    THEN << <<"REM GENRE ">> \o Join(r.release_group[1].genres[1], <<"; ">>) >>
    ELSE <<>>

DateText(release_date) ==
    IF Ordinal(release_date) = 1 THEN Decimal(release_date.year)
    ELSE DateToString(release_date)

DateLines(r) ==
    IF IsSome(r.release_group) /\ IsSome(r.release_group[1].first_release_date)
    THEN << <<"REM DATE ">> \o DateText(r.release_group[1].first_release_date[1]) >>
    ELSE <<>>

\* line 103: the test a label passes to get its REM COMMENT line
LabelEmitted(l) == l.name # <<>>

RECURSIVE LabelComments(_)
\* lines 102-106 over the label_info entries, in input order
LabelComments(label) ==
    IF label = <<>> THEN <<>>
    ELSE LET li == Head(label)
         IN  (IF IsSome(li.label) /\ LabelEmitted(li.label[1])
              THEN << <<"REM COMMENT \"">> \o li.label[1].name \o <<"\"">> >>
              ELSE <<>>)
             \o LabelComments(Tail(label))

LabelLines(r) == IF IsSome(r.label_info) THEN LabelComments(r.label_info[1]) ELSE <<>>

AlbumIdLine(r) == <<"REM MUSICBRAINZ_ALBUM_ID ">> \o r.id

FileLine == <<"FILE \"CDImage.flac\" WAVE">>

\* release_cuesheet once line 110 has run
HeaderLines(r) ==
    PerformerLines(r) \o GenreLines(r) \o DateLines(r) \o LabelLines(r)
    \o <<AlbumIdLine(r), FileLine>>

-----------------------------------------------------------------------------
(* Per medium, lines 112-145 *)

MediaOf(r) == UnwrapOr(r.media, <<>>)

\* is_album with the test of line 113 off by one: any medium at all
AnyMedium(media) == Len(media) > 0

\* line 113
is_album(media) == Len(media) > 1

\* line 115
MediumId(medium) ==
    UnwrapOr(medium.format, <<>>) \o <<" ">> \o Fmt02(UnwrapOr(medium.position, 0))

\* lines 117-126
MediumTitle(r, medium, album) ==
    <<"TITLE \"">> \o r.title
    \o (IF album THEN <<"- ">> \o MediumId(medium) ELSE <<>>)
    \o (IF IsSome(medium.title) /\ medium.title[1] # <<>>
        THEN <<": ">> \o medium.title[1] ELSE <<>>)
    \o <<"\"">>

\* line 128 with the two parts in the other order: the title after the header
MediumCuesheetEnd(medium_title, header) == Append(header, medium_title)

\* line 128: format!("{medium_title}\n{release_cuesheet}")
MediumCuesheetStart(medium_title, header) == <<medium_title>> \o header

\* line 130 with track_start declared outside the loop over the media
CarriedTrackStart(previous) == previous

\* line 130: the offset a medium starts from, whatever the previous one ended at
InitialTrackStart(previous) == 0

TracksOf(medium) == UnwrapOr(medium.tracks, <<>>)

\* line 135: whether the track gets its own PERFORMER line
TrackHasPerformer(track) == IsSome(track.artist_credit)

\* lines 132-137: the lines of a TRACK block written before the length is read
TrackHeadLines(track) ==
    << <<"  TRACK ">> \o Fmt02(track.position) \o <<" AUDIO">>,
       <<"    TITLE \"">> \o track.title \o <<"\"">> >>
    \o (IF TrackHasPerformer(track)
        THEN << <<"    PERFORMER \"">> \o join_artists(track.artist_credit[1]) \o <<"\"">> >>
        ELSE <<>>)

\* line 140
IndexLine(start) == <<"    INDEX 01 ">> \o millisecond_to_mmssff(start)

\* line 144
OutputFilename(id) == id \o <<".cue">>

-----------------------------------------------------------------------------
(* Inputs: what Release::fetch() (lines 64-72) may return.  Each family    *)
(* below varies the fields one part of main() reads and keeps the others   *)
(* at the values of DefaultRelease.                                        *)

SeqsUpTo(S, n) == UNION {[1..k -> S] : k \in 0..n}

ArtistA == [name |-> <<"Artist A">>, joinphrase |-> Some(<<" & ">>)]
ArtistB == [name |-> <<"Artist B">>, joinphrase |-> None]

CreditChoices == {None, Some(<<>>), Some(<<ArtistA, ArtistB>>)}

GenreChoices == {None, Some(<<>>), Some(<< <<"rock">>, <<"pop">> >>)}

DateChoices == {None,
                Some([year |-> 1999, month |-> 1, day |-> 1]),
                Some([year |-> 2004, month |-> 3, day |-> 5])}

ReleaseGroupChoices ==
    {None} \cup {Some([genres |-> g, first_release_date |-> d]) :
                    g \in GenreChoices, d \in DateChoices}

LabelChoices == {[label |-> None],
                 [label |-> Some([name |-> <<>>])],
                 [label |-> Some([name |-> <<"Label X">>])],
                 [label |-> Some([name |-> <<"Label Y">>])]}

LabelInfoChoices == {None} \cup {Some(ls) : ls \in SeqsUpTo(LabelChoices, MaxLabels)}

LengthChoices == {None, Some(180000), Some(200999)}

Track(k, credit, length) ==
    [position |-> k, title |-> <<"Song">>, artist_credit |-> credit, length |-> length]

Medium(format, position, title, tracks) ==
    [format |-> format, position |-> position, title |-> title, tracks |-> tracks]

DefaultTracks == Some(<<Track(1, None, Some(180000))>>)

DefaultMedium(k) == Medium(Some(<<"CD">>), Some(k), None, DefaultTracks)

DefaultRelease ==
    [id             |-> <<"mbid">>,
     title          |-> <<"Album">>,
     artist_credit  |-> Some(<<ArtistA, ArtistB>>),
     release_group  |-> Some([genres |-> Some(<< <<"rock">>, <<"pop">> >>),
                              first_release_date |-> Some([year |-> 2004, month |-> 3, day |-> 5])]),
     label_info     |-> Some(<<[label |-> Some([name |-> <<"Label X">>])]>>),
     media          |-> Some(<<DefaultMedium(1)>>)]

\* the header fields vary
HeaderReleases ==
    {[DefaultRelease EXCEPT !.artist_credit = c, !.release_group = g, !.label_info = l] :
        c \in CreditChoices, g \in ReleaseGroupChoices, l \in LabelInfoChoices}

\* the tracks of a medium with every length drawn from LengthChoices
TrackLists(credits, lengths) ==
    {None} \cup
    {Some([k \in 1..n |-> Track(k, cs[k], ls[k])]) :
        <<n, cs, ls>> \in UNION {{n} \X [1..n -> credits] \X [1..n -> lengths] : n \in 0..MaxTracks}}

\* one medium: the number of tracks and their lengths vary
TrackReleases ==
    {[DefaultRelease EXCEPT !.media = Some(<<Medium(Some(<<"CD">>), Some(1), None, ts)>>)] :
        ts \in TrackLists({None}, LengthChoices)}

\* the number of media and of their tracks vary, and which lengths are missing
OffsetReleases ==
    {[DefaultRelease EXCEPT !.media = Some([k \in 1..Len(ts) |->
            Medium(Some(<<"CD">>), Some(k), None, ts[k])])] :
        ts \in SeqsUpTo(TrackLists({None}, {None, Some(200999)}), MaxMedia)}

\* the number of media and what names them vary
MediumReleases ==
    {[DefaultRelease EXCEPT !.media = m] :
        m \in {None} \cup
              {Some(ms) : ms \in SeqsUpTo(
                  {Medium(f, p, t, DefaultTracks) :
                      f \in {None, Some(<<"CD">>)},
                      p \in {None, Some(1), Some(2)},
                      t \in {None, Some(<<>>), Some(<<"Bonus">>)}}, MaxMedia)}}

\* the recording artist credits of the tracks vary
CreditReleases ==
    {[DefaultRelease EXCEPT !.media = Some(<<Medium(Some(<<"CD">>), Some(1), None, ts)>>)] :
        ts \in TrackLists(CreditChoices, {Some(180000)})}

ReleaseFamilies == {"header", "tracks", "offsets", "media", "credits"}

ReleaseFamily(f) ==
    CASE f = "header"  -> HeaderReleases
      [] f = "tracks"  -> TrackReleases
      [] f = "offsets" -> OffsetReleases
      [] f = "media"   -> MediumReleases
      [] f = "credits" -> CreditReleases

\* a CoverartResponse::Json image: its type tags and its url
Image(types, url) == [types |-> types, image |-> url]

ImageChoices == {Image(<<"Front">>, <<"http://caa/front">>),
                 Image(<<"Back", "Spine">>, <<"http://caa/back">>)}

\* what FetchCoverart::execute() (line 151) may return
CoverartResponses ==
    {[kind |-> "Err", url |-> <<>>, images |-> <<>>],
     [kind |-> "Url", url |-> <<"http://caa/single">>, images |-> <<>>]}
    \cup {[kind |-> "Json", url |-> <<>>, images |-> is] :
            is \in SeqsUpTo(ImageChoices, MaxImages)}

\* what one call of download_cover_art meets: a 2xx answer for a url with an
\* extension, a non-success status, a request that fails, a 2xx answer for a
\* url without extension
DownloadOutcomes == {"ok", "http_error", "request_failed", "no_extension"}

\* the runs: cover art is asked for (-c) on a few releases only
CoverReleases ==
    {DefaultRelease,
     [DefaultRelease EXCEPT !.media = None],
     [DefaultRelease EXCEPT !.media = Some(<<Medium(None, None, None,
                                Some(<<Track(1, None, None)>>))>>)]}

\* the releases a run with that flag and of that family may be given
ReleasesFor(cover, f) == IF cover THEN CoverReleases ELSE ReleaseFamily(f)

-----------------------------------------------------------------------------
(* main, lines 58-170 *)

PcValues == {"fetch", "header", "medium", "track", "cover", "download_url",
             "download_images", "done", "panicked", "timecode"}

NoResponse == [kind |-> "", url |-> <<>>, images |-> <<>>]

Idle ==
    /\ release = DefaultRelease
    /\ release_cuesheet = <<>>
    /\ mi = 0
    /\ ti = 0
    /\ medium_id = <<>>
    /\ medium_cuesheet = <<>>
    /\ track_start = 0
    /\ files = <<>>
    /\ resp = NoResponse
    /\ images = <<>>
    /\ attempted = <<>>
    /\ cover_files = {}
    /\ stderr = <<>>
    /\ panicked = ""

\* after Args::parse() (line 59): nothing fetched, nothing written
Init ==
    /\ pc = "fetch"
    /\ cover_art \in BOOLEAN
    /\ Idle
    /\ ms_in = 0
    /\ mmssff_out = <<>>

\* lines 64-72: the fetch succeeds
FetchRelease ==
    /\ pc = "fetch"
    /\ \E f \in ReleaseFamilies : \E r \in ReleasesFor(cover_art, f) : release' = r
    /\ pc' = "header"
    /\ UNCHANGED <<cover_art, release_cuesheet, mi, ti, medium_id, medium_cuesheet,
                   track_start, files, resp, images, attempted, cover_files,
                   stderr, panicked, ms_in, mmssff_out>>

\* line 72: execute() returned Err and unwrap() panics
FetchReleaseFails ==
    /\ pc = "fetch"
    /\ pc' = "panicked"
    /\ panicked' = "Release::fetch"
    /\ UNCHANGED <<release, cover_art, release_cuesheet, mi, ti, medium_id,
                   medium_cuesheet, track_start, files, resp, images, attempted,
                   cover_files, stderr, ms_in, mmssff_out>>

\* lines 73-113: the header block, then into the loop over the media if any
BuildHeader ==
    /\ pc = "header"
    /\ release_cuesheet' = HeaderLines(release)
    /\ mi' = 1
    /\ pc' = IF MediaOf(release) # <<>> THEN "medium" ELSE "cover"
    /\ UNCHANGED <<release, cover_art, ti, medium_id, medium_cuesheet, track_start,
                   files, resp, images, attempted, cover_files, stderr, panicked,
                   ms_in, mmssff_out>>

\* lines 114-130: the top of one pass of the loop over the media
StartMedium ==
    /\ pc = "medium"
    /\ LET media  == MediaOf(release)
           medium == media[mi]
       IN  /\ medium_id' = MediumId(medium)
           /\ medium_cuesheet' =
                 MediumCuesheetStart(MediumTitle(release, medium, is_album(media)),
                                     release_cuesheet)
    /\ track_start' = InitialTrackStart(track_start)
    /\ ti' = 1
    /\ pc' = "track"
    /\ UNCHANGED <<release, cover_art, release_cuesheet, mi, files, resp, images,
                   attempted, cover_files, stderr, panicked, ms_in, mmssff_out>>

\* line 139 with unwrap_or_default() for unwrap(): it always returns
LengthDefaulted(track) == TRUE

\* line 139: whether track.length.unwrap() returns
LengthPresent(track) == IsSome(track.length)

\* lines 131-142: one pass of the loop over the tracks
ProcessTrack ==
    /\ pc = "track"
    /\ ti <= Len(TracksOf(MediaOf(release)[mi]))
    /\ LET track == TracksOf(MediaOf(release)[mi])[ti]
           head  == medium_cuesheet \o TrackHeadLines(track)
       IN  IF LengthPresent(track)
           THEN /\ medium_cuesheet' = Append(head, IndexLine(track_start))
                /\ track_start' = track_start + UnwrapOr(track.length, 0)
                /\ ti' = ti + 1
                /\ UNCHANGED <<pc, panicked>>
           ELSE /\ medium_cuesheet' = head
                /\ pc' = "panicked"
                /\ panicked' = "track.length"
                /\ UNCHANGED <<track_start, ti>>
    /\ UNCHANGED <<release, cover_art, release_cuesheet, mi, medium_id, files, resp,
                   images, attempted, cover_files, stderr, ms_in, mmssff_out>>

\* std::fs::write: the file of that name now holds text, whatever it held
WriteFile(fs, name, by, text) == (name :> [by |-> by, text |-> text]) @@ fs

\* lines 144-146: the tracks are through, the medium's file is written
WriteMedium ==
    /\ pc = "track"
    /\ ti > Len(TracksOf(MediaOf(release)[mi]))
    /\ files' = WriteFile(files, OutputFilename(medium_id), mi, medium_cuesheet)
    /\ mi' = mi + 1
    /\ pc' = IF mi < Len(MediaOf(release)) THEN "medium" ELSE "cover"
    /\ UNCHANGED <<release, cover_art, release_cuesheet, ti, medium_id,
                   medium_cuesheet, track_start, resp, images, attempted,
                   cover_files, stderr, panicked, ms_in, mmssff_out>>

\* line 149: no -c flag
SkipCoverArt ==
    /\ pc = "cover"
    /\ ~cover_art
    /\ pc' = "done"
    /\ UNCHANGED <<release, cover_art, release_cuesheet, mi, ti, medium_id,
                   medium_cuesheet, track_start, files, resp, images, attempted,
                   cover_files, stderr, panicked, ms_in, mmssff_out>>

\* lines 150-157 and 166-168: the cover-art fetch and the dispatch on its result
FetchCoverart ==
    /\ pc = "cover"
    /\ cover_art
    /\ \E r \in CoverartResponses :
          /\ resp' = r
          /\ images' = IF r.kind = "Url" THEN <<Image(<<>>, r.url)>> ELSE r.images
          /\ stderr' = IF r.kind = "Err"
                       THEN Append(stderr, "Failed to download cover art") ELSE stderr
          /\ pc' = IF r.kind = "Url" THEN "download_url"
                   ELSE IF r.kind = "Json" /\ r.images # <<>> THEN "download_images"
                   ELSE "done"
    /\ UNCHANGED <<release, cover_art, release_cuesheet, mi, ti, medium_id,
                   medium_cuesheet, track_start, files, attempted, cover_files,
                   panicked, ms_in, mmssff_out>>

\* lines 48 and 50: the unwrap() of download_cover_art that panics, if any
DownloadPanic(outcome) ==
    IF outcome = "request_failed" THEN "reqwest::blocking::get"
    ELSE IF outcome = "no_extension" THEN "extension"
    ELSE ""

\* lines 47-56
download_cover_art(url, output_path_prefix, outcome) ==
    /\ attempted' = Append(attempted, url)
    /\ cover_files' = IF outcome = "ok"
                      THEN cover_files \cup {output_path_prefix \o <<".jpg">>}
                      ELSE cover_files
    /\ stderr' = IF outcome = "http_error"
                 THEN Append(stderr, "HTTP error code") ELSE stderr
    /\ panicked' = DownloadPanic(outcome)

\* lines 153-155: CoverartResponse::Url
DownloadUrl ==
    /\ pc = "download_url"
    /\ \E outcome \in DownloadOutcomes :
          /\ download_cover_art(resp.url, <<"Cover">>, outcome)
          /\ pc' = IF DownloadPanic(outcome) # "" THEN "panicked" ELSE "done"
    /\ images' = <<>>
    /\ UNCHANGED <<release, cover_art, release_cuesheet, mi, ti, medium_id,
                   medium_cuesheet, track_start, files, resp, ms_in, mmssff_out>>

\* lines 159-163: one pass of the loop over cover_art.images (the sleep of
\* line 162 changes no state)
DownloadImage ==
    /\ pc = "download_images"
    /\ LET img == Head(images)
           img_filename_stem == Join([i \in 1..Len(img.types) |-> <<img.types[i]>>], <<"_">>)
       IN  \E outcome \in DownloadOutcomes :
              /\ download_cover_art(img.image, <<"Cover/">> \o img_filename_stem, outcome)
              /\ pc' = IF DownloadPanic(outcome) # "" THEN "panicked"
                       ELSE IF Tail(images) = <<>> THEN "done"
                       ELSE "download_images"
              /\ images' = IF DownloadPanic(outcome) # "" THEN images ELSE Tail(images)
    /\ UNCHANGED <<release, cover_art, release_cuesheet, mi, ti, medium_id,
                   medium_cuesheet, track_start, files, resp, ms_in, mmssff_out>>

Next ==
    \/ FetchRelease
    \/ FetchReleaseFails
    \/ BuildHeader
    \/ StartMedium
    \/ ProcessTrack
    \/ WriteMedium
    \/ SkipCoverArt
    \/ FetchCoverart
    \/ DownloadUrl
    \/ DownloadImage

Spec == Init /\ [][Next]_vars

-----------------------------------------------------------------------------
(* millisecond_to_mmssff on its own: one call on every ms up to MaxMs *)

InitTimecode ==
    /\ pc = "timecode"
    /\ cover_art = FALSE
    /\ Idle
    /\ ms_in \in 0..MaxMs
    /\ mmssff_out = <<>>

CallTimecode ==
    /\ pc = "timecode"
    /\ mmssff_out = <<>>
    /\ mmssff_out' = millisecond_to_mmssff(ms_in)
    /\ UNCHANGED <<pc, release, cover_art, release_cuesheet, mi, ti, medium_id,
                   medium_cuesheet, track_start, files, resp, images, attempted,
                   cover_files, stderr, panicked, ms_in>>

NextTimecode == CallTimecode

SpecTimecode == InitTimecode /\ [][NextTimecode]_vars

TypeOK ==
    /\ pc \in PcValues
    /\ cover_art \in BOOLEAN
    /\ mi \in 0..(MaxMedia + 1)
    /\ ti \in 0..(MaxTracks + 1)
    /\ track_start \in Nat
    /\ panicked \in {"", "Release::fetch", "track.length",
                     "reqwest::blocking::get", "extension"}
    /\ (pc = "panicked") = (panicked # "")

-----------------------------------------------------------------------------
(* Reading a cuesheet back: what the properties below look at *)

Kind(line) == line[1]

LinesOfKind(text, kind) == SelectSeq(text, LAMBDA l : Kind(l) = kind)

Positions(text, kind) == {i \in 1..Len(text) : Kind(text[i]) = kind}

\* the k-th smallest element of a set of numbers
Kth(S, k) == CHOOSE i \in S : Cardinality({j \in S : j < i}) = k - 1

\* the lines of the k-th TRACK block: from its TRACK line to the next one
TrackBlock(text, k) ==
    LET starts == Positions(text, "  TRACK ")
        last   == IF k < Cardinality(starts) THEN Kth(starts, k + 1) - 1 ELSE Len(text)
    IN  SubSeq(text, Kth(starts, k), last)

\* whether sub occurs in s as a run of consecutive tokens
Contains(s, sub) ==
    \E i \in 1..(Len(s) - Len(sub) + 1) : SubSeq(s, i, i + Len(sub) - 1) = sub

RECURSIVE SplitAt(_, _)
\* the fields of s between the separator tokens
SplitAt(s, sep) ==
    IF \A i \in 1..Len(s) : s[i] # sep THEN <<s>>
    ELSE LET i == CHOOSE j \in 1..Len(s) : s[j] = sep /\ \A h \in 1..(j - 1) : s[h] # sep
         IN  <<SubSeq(s, 1, i - 1)>> \o SplitAt(SubSeq(s, i + 1, Len(s)), sep)

DigitValue(c) == CHOOSE d \in 0..9 : DigitChars[d + 1] = c

RECURSIVE ParseNat(_)
ParseNat(digits) ==
    IF digits = <<>> THEN 0
    ELSE 10 * ParseNat(SubSeq(digits, 1, Len(digits) - 1)) + DigitValue(digits[Len(digits)])

IsDigits(s) == s # <<>> /\ \A i \in 1..Len(s) : \E d \in 1..10 : DigitChars[d] = s[i]

RECURSIVE SumLengths(_, _)
\* the sum of length_ms of the first n tracks
SumLengths(tracks, n) ==
    IF n = 0 THEN 0 ELSE SumLengths(tracks, n - 1) + UnwrapOr(tracks[n].length, 0)

\* the medium whose pass of the loop wrote the file
WriterOf(name) == MediaOf(release)[files[name].by]

Terminated == pc \in {"done", "panicked"}

-----------------------------------------------------------------------------
(* C1, under SpecTimecode *)

\* C1: for every non-negative ms the timecode millisecond_to_mmssff(ms) has
\* three fields MM:SS:FF with 0 <= SS < 60 and 0 <= FF < 75; a rounding that
\* yields 75 frames carries into the seconds instead of printing FF = 75.
C1_FieldsInRange ==
    mmssff_out # <<>> =>
        LET f == SplitAt(mmssff_out, ":")
        IN  /\ Len(f) = 3
            /\ \A i \in 1..3 : IsDigits(f[i])
            /\ ParseNat(f[2]) < 60
            /\ ParseNat(f[3]) < FRAMES_PER_SECOND

-----------------------------------------------------------------------------
(* C2 .. C10, under Spec *)

\* the INDEX lines text must hold for the first n tracks of a medium
IndexAgree(text, tracks, n) ==
    LET index == LinesOfKind(text, "    INDEX 01 ")
    IN  /\ Len(index) = n
        /\ \A k \in 1..n :
              index[k] = <<"    INDEX 01 ">> \o millisecond_to_mmssff(SumLengths(tracks, k - 1))
        /\ n > 0 => index[1] = <<"    INDEX 01 ", "0", "0", ":", "0", "0", ":", "0", "0">>

\* C2: in every cuesheet written, and in the one being built, the INDEX 01
\* timecode of track k is the timecode of the sum of the lengths of tracks
\* 1..k-1 of the same medium only; track 1 of every medium is at 00:00:00.
C2_IndexIsSumWithinMedium ==
    /\ \A name \in DOMAIN files :
          IndexAgree(files[name].text, TracksOf(WriterOf(name)),
                     Len(TracksOf(WriterOf(name))))
    /\ pc = "track" =>
          IndexAgree(medium_cuesheet, TracksOf(MediaOf(release)[mi]), ti - 1)

\* C2's case: the second medium of a release is written, after a first medium
\* with tracks, and has a third track at the sum of two lengths.
C2_Witness ==
    \E name \in DOMAIN files :
        /\ files[name].by = 2
        /\ Len(TracksOf(MediaOf(release)[1])) >= 2
        /\ SumLengths(TracksOf(MediaOf(release)[1]), 2) > 0
        /\ Len(LinesOfKind(files[name].text, "    INDEX 01 ")) >= 3

HeaderRank(line) ==
    CASE Kind(line) = "TITLE \""                   -> 0
      [] Kind(line) = "PERFORMER \""               -> 1
      [] Kind(line) = "REM GENRE "                 -> 2
      [] Kind(line) = "REM DATE "                  -> 3
      [] Kind(line) = "REM COMMENT \""             -> 4
      [] Kind(line) = "REM MUSICBRAINZ_ALBUM_ID "  -> 5
      [] Kind(line) = "FILE \"CDImage.flac\" WAVE" -> 6
      [] OTHER                                     -> 7

\* C3 as stated: the lines of every cuesheet written come in the order
\* PERFORMER, REM GENRE, REM DATE, REM COMMENT lines, REM MUSICBRAINZ_ALBUM_ID,
\* FILE, the medium TITLE line, the TRACK blocks: the TITLE line is after the
\* FILE line and before the first TRACK, never before the header block.
C3_TitleAfterFile ==
    \A name \in DOMAIN files :
        LET text == files[name].text
        IN  \A t \in Positions(text, "TITLE \"") :
                /\ \A i \in 1..Len(text) : HeaderRank(text[i]) \in 1..6 => i < t
                /\ \A i \in 1..Len(text) : HeaderRank(text[i]) = 7 => t < i

\* C3, amended: the medium TITLE line is the first line of every cuesheet
\* written; after it come, in this order, PERFORMER, REM GENRE, REM DATE (at
\* most one of each), the REM COMMENT lines, REM MUSICBRAINZ_ALBUM_ID, FILE
\* (one of each), then the TRACK blocks.
C3_TitleFirstThenHeader ==
    \A name \in DOMAIN files :
        LET text == files[name].text
        IN  /\ Positions(text, "TITLE \"") = {1}
            /\ \A i, j \in 1..Len(text) : i < j => HeaderRank(text[i]) <= HeaderRank(text[j])
            /\ \A r \in {1, 2, 3} : Cardinality({i \in 1..Len(text) : HeaderRank(text[i]) = r}) <= 1
            /\ \A r \in {5, 6} : Cardinality({i \in 1..Len(text) : HeaderRank(text[i]) = r}) = 1

\* C3's case: a cuesheet written with every kind of header line, two REM
\* COMMENT lines and a TRACK block.
C3_Witness ==
    \E name \in DOMAIN files :
        LET text == files[name].text
        IN  /\ \A r \in 0..7 : \E i \in 1..Len(text) : HeaderRank(text[i]) = r
            /\ Len(LinesOfKind(text, "REM COMMENT \"")) = 2

\* C4: after a run that ends without a fatal error on a release with N media
\* there are N cuesheet files, one per medium, each the one its own medium
\* wrote: none was replaced by the cuesheet of another medium.
C4_OneFilePerMedium ==
    pc = "done" =>
        /\ Cardinality(DOMAIN files) = Len(MediaOf(release))
        /\ \A m \in 1..Len(MediaOf(release)) : \E name \in DOMAIN files : files[name].by = m

\* C5: in every state, the state after a run aborted on a missing length_ms
\* included, every cuesheet written holds one complete TRACK block, ending in
\* its INDEX line, for every track of its medium, and every track of that
\* medium has a length: no cuesheet is written truncated or with a missing
\* length taken as zero, and the run never gets past a medium that has a
\* track without length.
C5_WrittenCuesheetsComplete ==
    /\ \A name \in DOMAIN files :
          LET text   == files[name].text
              tracks == TracksOf(WriterOf(name))
          IN  /\ Cardinality(Positions(text, "  TRACK ")) = Len(tracks)
              /\ \A k \in 1..Len(tracks) :
                    LET block == TrackBlock(text, k)
                    IN  /\ block[1] = <<"  TRACK ">> \o Fmt02(tracks[k].position) \o <<" AUDIO">>
                        /\ Kind(block[2]) = "    TITLE \""
                        /\ Kind(block[Len(block)]) = "    INDEX 01 "
                        /\ Len(LinesOfKind(block, "    INDEX 01 ")) = 1
                        /\ IsSome(tracks[k].length)
    /\ \A m \in 1..Len(MediaOf(release)) :
          m < mi => \A k \in 1..Len(TracksOf(MediaOf(release)[m])) :
                       IsSome(TracksOf(MediaOf(release)[m])[k].length)

\* C5's case: the run aborted on a missing length_ms in the second medium,
\* after the first medium's cuesheet, with tracks, was written.
C5_Witness ==
    /\ pc = "panicked"
    /\ panicked = "track.length"
    /\ mi = 2
    /\ ti = 1
    /\ \E name \in DOMAIN files : Len(TracksOf(WriterOf(name))) >= 2

\* C6: with a list of images, a download that fails (a non-success status or
\* a failed request) skips that image only: every image of the list is still
\* attempted, in order, and the process does not terminate because of it.
C6_ArtworkFailuresIsolated ==
    (Terminated /\ resp.kind = "Json" /\ panicked # "extension") =>
        /\ pc = "done"
        /\ attempted = [i \in 1..Len(resp.images) |-> resp.images[i].image]

\* the title line of a cuesheet names the medium: "- <format> <position>"
HasMediumSuffix(text, medium) ==
    \E i \in Positions(text, "TITLE \"") : Contains(text[i], <<"- ">> \o MediumId(medium))

\* C7: the title line of a cuesheet, written or being built, has the suffix
\* "- <format> <two-digit position>" of its medium if and only if the release
\* has two or more media.
C7_SuffixIffMultiDisc ==
    /\ \A name \in DOMAIN files :
          HasMediumSuffix(files[name].text, WriterOf(name)) <=> Len(MediaOf(release)) >= 2
    /\ pc = "track" =>
          (HasMediumSuffix(medium_cuesheet, MediaOf(release)[mi]) <=> Len(MediaOf(release)) >= 2)

\* C7's case: both cuesheets of a release with two media are written, under
\* two names, each with the suffix of its own medium on its title line.
C7_Witness ==
    /\ pc = "done"
    /\ Len(MediaOf(release)) = 2
    /\ Cardinality(DOMAIN files) = 2
    /\ \A name \in DOMAIN files : HasMediumSuffix(files[name].text, WriterOf(name))

\* C8: a TRACK block has a PERFORMER line if and only if the recording artist
\* credits of its track are a non-empty sequence; absent or empty credits
\* give no PERFORMER line.
C8_PerformerIffCredits ==
    \A name \in DOMAIN files :
        \A k \in 1..Len(TracksOf(WriterOf(name))) :
            LET credit == TracksOf(WriterOf(name))[k].artist_credit
            IN  (LinesOfKind(TrackBlock(files[name].text, k), "    PERFORMER \"") # <<>>)
                <=> (IsSome(credit) /\ credit[1] # <<>>)

RECURSIVE FirstOccurrences(_)
\* s without the elements that occurred before
FirstOccurrences(s) ==
    IF s = <<>> THEN <<>>
    ELSE LET front == FirstOccurrences(SubSeq(s, 1, Len(s) - 1))
         IN  IF \E i \in 1..Len(front) : front[i] = s[Len(s)] THEN front
             ELSE Append(front, s[Len(s)])

\* the non-empty label names of the release, in input order
LabelNames(r) ==
    LET named == SelectSeq(UnwrapOr(r.label_info, <<>>),
                           LAMBDA li : IsSome(li.label) /\ li.label[1].name # <<>>)
    IN  [i \in 1..Len(named) |-> named[i].label[1].name]

\* C9: the header of every cuesheet written has one REM COMMENT line per
\* distinct non-empty label name, in order of first occurrence: a name that
\* occurs in several label_info entries gives one line.
C9_OneCommentPerDistinctLabel ==
    \A name \in DOMAIN files :
        LinesOfKind(files[name].text, "REM COMMENT \"")
            = [i \in 1..Len(FirstOccurrences(LabelNames(release))) |->
                  <<"REM COMMENT \"">> \o FirstOccurrences(LabelNames(release))[i] \o <<"\"">>]

\* the only track without length_ms is the last track of the last medium
OnlyTerminalLengthMissing ==
    LET media == MediaOf(release)
    IN  /\ media # <<>>
        /\ TracksOf(media[Len(media)]) # <<>>
        /\ \A m \in 1..Len(media) : \A k \in 1..Len(TracksOf(media[m])) :
              IsSome(TracksOf(media[m])[k].length)
                  <=> ~(m = Len(media) /\ k = Len(TracksOf(media[m])))

\* C10: when the only track without length_ms is the last track of the last
\* medium, the run does not abort on it and the cuesheet of the last medium
\* is written, its INDEX lines at the sums of the preceding lengths.
C10_TerminalLengthOptional ==
    OnlyTerminalLengthMissing =>
        /\ panicked # "track.length"
        /\ pc = "done" =>
              \E name \in DOMAIN files :
                  /\ files[name].by = Len(MediaOf(release))
                  /\ IndexAgree(files[name].text, TracksOf(WriterOf(name)),
                                Len(TracksOf(WriterOf(name))))

=============================================================================
